---- MODULE Spec2Model ----
(***************************************************************************)
(* A model of the CHIP-8 interpreter of src/src/chip8.rs: the Chip8        *)
(* struct, the decoder, the execute/emulate_cycle engine, the key handlers *)
(* and the ROM loader.  The machine state is the struct's fields; a Rust   *)
(* panic is the flag `panicked`, after which the process takes no step.    *)
(* The two large arrays are held by their non-default cells: memory is the *)
(* function from the addresses of its non-zero bytes to those bytes, gfx   *)
(* is the set of the indices of its true cells.  Index checks are explicit.*)
(***************************************************************************)
EXTENDS Integers, Sequences, FiniteSets, TLC

VARIABLES memory, V, I, pc, gfx, delay_timer, sound_timer, stack, sp, keys,
          opcode, draw, wait_for_input, tick_time,
          panicked, now, host

vars == <<memory, V, I, pc, gfx, delay_timer, sound_timer, stack, sp, keys,
          opcode, draw, wait_for_input, tick_time, panicked, now, host>>

(* ------------------------------ constants ------------------------------ *)

MEM_SIZE == 4096
REGISTER_COUNT == 16
DISPLAY_HEIGHT == 32
DISPLAY_WIDTH == 64
STACK_SIZE == 16
KEY_COUNT == 16
FONT_SIZE == 80
PROGRAM_START_ADDRESS == 512

\* usize::MAX, the value a wrapping `sp -= 1` leaves at sp = 0; written as its
\* two's-complement reading because TLC's integers are 32 bits wide.
USIZE_MAX == -1

\* The wall clock is counted in periods of 1/60 s and stops at MaxNow.
MaxNow == 2

(* ------------------------------ bit operations ------------------------- *)

RECURSIVE BitAnd(_, _)
BitAnd(a, b) ==
    IF a = 0 \/ b = 0 THEN 0
    ELSE (a % 2) * (b % 2) + 2 * BitAnd(a \div 2, b \div 2)

RECURSIVE BitOr(_, _)
BitOr(a, b) ==
    IF a = 0 THEN b
    ELSE IF b = 0 THEN a
    ELSE (IF a % 2 = 1 \/ b % 2 = 1 THEN 1 ELSE 0) + 2 * BitOr(a \div 2, b \div 2)

RECURSIVE BitXor(_, _)
BitXor(a, b) ==
    IF a = 0 THEN b
    ELSE IF b = 0 THEN a
    ELSE ((a + b) % 2) + 2 * BitXor(a \div 2, b \div 2)

RECURSIVE Pow2(_)
Pow2(n) == IF n = 0 THEN 1 ELSE 2 * Pow2(n - 1)

\* u16::rotate_right and u16::rotate_left
RotateRight16(w, n) == (w \div Pow2(n)) + ((w % Pow2(n)) * Pow2(16 - n))

RotateLeft16(w, n) == ((w * Pow2(n)) % 65536) + (w \div Pow2(16 - n))

\* u8::overflowing_add and u8::overflowing_sub: <<wrapped result, overflowed>>
overflowing_add(a, b) == <<(a + b) % 256, a + b > 255>>

overflowing_sub(a, b) == <<(a - b) % 256, a < b>>

\* `b as u8` for a bool b
AsU8(b) == IF b THEN 1 ELSE 0

(* ------------------------------ Option, Keycode ------------------------ *)

None == <<>>

Some(x) == <<x>>

Unwrap(o) == o[1]

\* The host keys the model presses: the sixteen mapped ones and one that
\* the key map does not know.
MappedKeycodes ==
    {"X", "Num1", "Num2", "Num3", "Num4", "Q", "W", "E", "R", "A", "S", "D",
     "F", "Z", "C", "V"}

Keycodes == MappedKeycodes \cup {"Escape"}

keymap(keycode) ==
    CASE keycode = "X" -> Some(0)
      [] keycode = "Num1" -> Some(1)
      [] keycode = "Num2" -> Some(2)
      [] keycode = "Num3" -> Some(3)
      [] keycode = "Num4" -> Some(12)
      [] keycode = "Q" -> Some(4)
      [] keycode = "W" -> Some(5)
      [] keycode = "E" -> Some(6)
      [] keycode = "R" -> Some(13)
      [] keycode = "A" -> Some(7)
      [] keycode = "S" -> Some(8)
      [] keycode = "D" -> Some(9)
      [] keycode = "F" -> Some(14)
      [] keycode = "Z" -> Some(10)
      [] keycode = "C" -> Some(11)
      [] keycode = "V" -> Some(15)
      [] OTHER -> None

(* ------------------------------ decoder -------------------------------- *)

\* The Opcode enum: one record shape per shape of variant.
Op0(name) == [op |-> name]

OpM(name, mmm) == [op |-> name, mmm |-> mmm]

OpXKK(name, xkk) == [op |-> name, x |-> xkk[1], kk |-> xkk[2]]

OpXY(name, xy) == [op |-> name, x |-> xy[1], y |-> xy[2]]

OpX(name, x) == [op |-> name, x |-> x]

OpXYN(name, xy, n) == [op |-> name, x |-> xy[1], y |-> xy[2], n |-> n]

\* What decode yields where the code panics.
UnknownOpcode == [op |-> "panic"]

decode_xkk(instruction) ==
    <<RotateRight16(instruction, 8) % 16, instruction % 256>>

\* decode_xy with the two rotations exchanged
decode_xy_swapped(instruction) ==
    <<RotateRight16(instruction, 4) % 16, RotateRight16(instruction, 8) % 16>>

decode_xy(instruction) ==
    <<RotateRight16(instruction, 8) % 16, RotateRight16(instruction, 4) % 16>>

decode_x(instruction) == RotateRight16(instruction, 8) % 16

decode(instruction) ==
    LET top == instruction \div 4096      \* instruction & 0xF000
        low == instruction % 16           \* instruction & 0x000F
        byte == instruction % 256         \* instruction & 0x00FF
        mmm == instruction % 4096         \* instruction & 0x0FFF
    IN CASE top = 0 ->
              IF instruction = 0 THEN Op0("OP_0000")
              ELSE IF instruction = 224 THEN Op0("OP_00E0")
              ELSE IF instruction = 238 THEN Op0("OP_00EE")
              ELSE UnknownOpcode
         [] top = 1 -> OpM("OP_1MMM", mmm)
         [] top = 2 -> OpM("OP_2MMM", mmm)
         [] top = 3 -> OpXKK("OP_3XKK", decode_xkk(instruction))
         [] top = 4 -> OpXKK("OP_4XKK", decode_xkk(instruction))
         [] top = 5 ->
              IF low = 0 THEN OpXY("OP_5XY0", decode_xy(instruction))
              ELSE UnknownOpcode
         [] top = 6 -> OpXKK("OP_6XKK", decode_xkk(instruction))
         [] top = 7 -> OpXKK("OP_7XKK", decode_xkk(instruction))
         [] top = 8 ->
              CASE low = 0 -> OpXY("OP_8XY0", decode_xy(instruction))
                [] low = 1 -> OpXY("OP_8XY1", decode_xy(instruction))
                [] low = 2 -> OpXY("OP_8XY2", decode_xy(instruction))
                [] low = 3 -> OpXY("OP_8XY3", decode_xy(instruction))
                [] low = 4 -> OpXY("OP_8XY4", decode_xy(instruction))
                [] low = 5 -> OpXY("OP_8XY5", decode_xy(instruction))
                [] low = 6 -> OpX("OP_8X16", decode_x(instruction))
                [] low = 7 -> OpXY("OP_8XY7", decode_xy(instruction))
                [] low = 14 -> OpX("OP_8X1E", decode_x(instruction))
                [] OTHER -> UnknownOpcode
         [] top = 9 ->
              IF low = 0 THEN OpXY("OP_9XY0", decode_xy(instruction))
              ELSE UnknownOpcode
         [] top = 10 -> OpM("OP_AMMM", mmm)
         [] top = 11 -> OpM("OP_BMMM", mmm)
         [] top = 12 -> OpXKK("OP_CXKK", decode_xkk(instruction))
         [] top = 13 -> OpXYN("OP_DXYN", decode_xy(instruction), low)
         [] top = 14 ->
              CASE byte = 158 -> OpX("OP_EX9E", decode_x(instruction))
                [] byte = 161 -> OpX("OP_EXA1", decode_x(instruction))
                [] OTHER -> UnknownOpcode
         [] top = 15 ->
              IF instruction = 61440 THEN Op0("OP_F000")
              ELSE CASE byte = 7 -> OpX("OP_FX07", decode_x(instruction))
                     [] byte = 10 -> OpX("OP_FX0A", decode_x(instruction))
                     [] byte = 21 -> OpX("OP_FX15", decode_x(instruction))
                     [] byte = 24 -> OpX("OP_FX18", decode_x(instruction))
                     [] byte = 30 -> OpX("OP_FX1E", decode_x(instruction))
                     [] byte = 41 -> OpX("OP_FX29", decode_x(instruction))
                     [] byte = 51 -> OpX("OP_FX33", decode_x(instruction))
                     [] byte = 85 -> OpX("OP_FX55", decode_x(instruction))
                     [] byte = 101 -> OpX("OP_FX65", decode_x(instruction))
                     [] byte = 112 -> OpX("OP_FX70", decode_x(instruction))
                     [] byte = 113 -> OpX("OP_FX71", decode_x(instruction))
                     [] byte = 114 -> OpX("OP_FX72", decode_x(instruction))
                     [] OTHER -> UnknownOpcode
         [] OTHER -> UnknownOpcode

(* ------------------------------ the Chip8 struct ----------------------- *)

\* The struct as one value, for the operators that model its methods; the
\* field `panicked` says that the method panicked on the way.
Self ==
    [memory |-> memory, V |-> V, I |-> I, pc |-> pc, gfx |-> gfx,
     delay_timer |-> delay_timer, sound_timer |-> sound_timer,
     stack |-> stack, sp |-> sp, keys |-> keys, opcode |-> opcode,
     draw |-> draw, wait_for_input |-> wait_for_input,
     tick_time |-> tick_time, panicked |-> panicked]

Panic(s) == [s EXCEPT !.panicked = TRUE]

font ==
    << 240, 144, 144, 144, 240,
       32, 96, 32, 32, 112,
       240, 16, 240, 128, 240,
       240, 16, 240, 16, 240,
       144, 144, 240, 16, 16,
       240, 128, 240, 16, 240,
       240, 128, 240, 144, 240,
       240, 16, 32, 64, 64,
       240, 144, 240, 144, 240,
       240, 144, 240, 16, 240,
       240, 144, 240, 144, 144,
       224, 144, 224, 144, 224,
       240, 128, 128, 128, 240,
       224, 144, 144, 144, 224,
       240, 128, 240, 128, 240,
       240, 128, 240, 128, 128 >>

\* memory[a] and memory[a] = v, for an index a inside the array
Byte(mem, a) == IF a \in DOMAIN mem THEN mem[a] ELSE 0

Store(mem, a, v) ==
    IF v = 0 THEN [b \in (DOMAIN mem) \ {a} |-> mem[b]]
    ELSE [b \in (DOMAIN mem) \cup {a} |-> IF b = a THEN v ELSE mem[b]]

\* gfx[i] and gfx[i] = b, for an index i inside the array
Cell(g, i) == i \in g

SetCell(g, i, b) == IF b THEN g \cup {i} ELSE g \ {i}

ZeroMemory == [a \in {} |-> 0]

\* for i in 0..FONT_SIZE { memory[i] = font[i] }
init_font(mem) ==
    LET written == 0..(FONT_SIZE - 1)
        nonzero == {i \in written : font[i + 1] # 0}
    IN [a \in ((DOMAIN mem) \ written) \cup nonzero |->
           IF a \in written THEN font[a + 1] ELSE mem[a]]

create_chip8(instant_now) ==
    [memory |-> init_font(ZeroMemory),
     V |-> [i \in 0..(REGISTER_COUNT - 1) |-> 0],
     I |-> 0,
     pc |-> PROGRAM_START_ADDRESS,
     gfx |-> {},
     delay_timer |-> 0,
     sound_timer |-> 0,
     stack |-> [i \in 0..(STACK_SIZE - 1) |-> 0],
     sp |-> 0,
     keys |-> [i \in 0..(KEY_COUNT - 1) |-> FALSE],
     opcode |-> Op0("OP_0000"),
     draw |-> FALSE,
     wait_for_input |-> None,
     tick_time |-> instant_now,
     panicked |-> FALSE]

\* load_rom: the loop copies byte by byte and panics at the first index past
\* the memory, with the bytes before it already copied.
load_rom(s, file_contents) ==
    LET read_size == Len(file_contents)
        room == MEM_SIZE - PROGRAM_START_ADDRESS
        copied == IF read_size <= room THEN read_size ELSE room
        written == PROGRAM_START_ADDRESS..(PROGRAM_START_ADDRESS + copied - 1)
        from(a) == file_contents[a - PROGRAM_START_ADDRESS + 1]
        nonzero == {a \in written : from(a) # 0}
        mem == [a \in ((DOMAIN s.memory) \ written) \cup nonzero |->
                   IF a \in written THEN from(a) ELSE s.memory[a]]
    IN [s EXCEPT !.memory = mem, !.panicked = read_size > room]

key_up(s, keycode) ==
    LET mapped_keycode == keymap(keycode)
    IN IF mapped_keycode = None THEN s
       ELSE [s EXCEPT !.keys[Unwrap(mapped_keycode)] = FALSE]

\* key_down that hands the key to the waiting register and keeps waiting
key_down_keeps_waiting(s, keycode) ==
    LET mapped_keycode == keymap(keycode)
    IN IF mapped_keycode = None THEN s
       ELSE IF s.wait_for_input # None
            THEN [s EXCEPT !.V[Unwrap(s.wait_for_input)] = Unwrap(mapped_keycode)]
            ELSE [s EXCEPT !.keys[Unwrap(mapped_keycode)] = TRUE]

key_down(s, keycode) ==
    LET mapped_keycode == keymap(keycode)
    IN IF mapped_keycode = None THEN s
       ELSE IF s.wait_for_input # None
            THEN [s EXCEPT !.V[Unwrap(s.wait_for_input)] = Unwrap(mapped_keycode),
                           !.wait_for_input = None]
            ELSE [s EXCEPT !.keys[Unwrap(mapped_keycode)] = TRUE]

\* fetch reads memory[pc] and memory[pc + 1]; either index may be out of range.
FetchInRange(s) == s.pc + 1 < MEM_SIZE

fetch(s) ==
    BitOr(RotateLeft16(Byte(s.memory, s.pc), 8), Byte(s.memory, s.pc + 1))

\* clear_screen that empties the framebuffer without raising the redraw flag
clear_screen_without_redraw(s) ==
    [s EXCEPT !.gfx = {i \in s.gfx : i \notin 0..(DISPLAY_HEIGHT * DISPLAY_WIDTH - 1)}]

clear_screen(s) ==
    [s EXCEPT !.gfx = {i \in s.gfx : i \notin 0..(DISPLAY_HEIGHT * DISPLAY_WIDTH - 1)},
              !.draw = TRUE]

\* The inner loop of draw_sprite over bit_index, on d = <<gfx, collision>>.
\* draw_row with the sprite bits ORed onto the framebuffer instead of XORed.
draw_row_sets_pixels(d, byte, vx, rowbase) ==
    LET gfx_index(bit_index) == rowbase + vx + bit_index
        bit_value(bit_index) == ((byte \div Pow2(7 - bit_index)) % 2) # 0
        reached == {bit_index \in 0..7 :
                       gfx_index(bit_index) < DISPLAY_HEIGHT * DISPLAY_WIDTH}
        ones == {gfx_index(bit_index) :
                    bit_index \in {b \in reached : bit_value(b)}}
    IN << d[1] \cup ones,
          d[2] \/ \E bit_index \in reached :
                     bit_value(bit_index) /\ Cell(d[1], gfx_index(bit_index)) >>

\* gfx_index grows with bit_index, so the bits the loop reaches before its
\* break are those with gfx_index inside the framebuffer; each of them XORs
\* its own cell.
draw_row(d, byte, vx, rowbase) ==
    LET gfx_index(bit_index) == rowbase + vx + bit_index
        bit_value(bit_index) == ((byte \div Pow2(7 - bit_index)) % 2) # 0
        reached == {bit_index \in 0..7 :
                       gfx_index(bit_index) < DISPLAY_HEIGHT * DISPLAY_WIDTH}
        ones == {gfx_index(bit_index) :
                    bit_index \in {b \in reached : bit_value(b)}}
    IN << {i \in d[1] \cup ones : Cell(d[1], i) # (i \in ones)},
          d[2] \/ \E bit_index \in reached :
                     bit_value(bit_index) /\ Cell(d[1], gfx_index(bit_index)) >>

\* The outer loop of draw_sprite over byte_index, from byte_index on; reading
\* memory[I + byte_index] past the memory panics and leaves the rows drawn.
RECURSIVE draw_rows(_, _, _, _, _, _)
draw_rows(s, d, x, y, n, byte_index) ==
    IF byte_index >= n
    THEN [s EXCEPT !.gfx = d[1], !.V[15] = AsU8(d[2]), !.draw = TRUE]
    ELSE IF s.I + byte_index >= MEM_SIZE
         THEN Panic([s EXCEPT !.gfx = d[1]])
         ELSE draw_rows(s,
                        draw_row(d, Byte(s.memory, s.I + byte_index), s.V[x],
                                 (s.V[y] + byte_index) * DISPLAY_WIDTH),
                        x, y, n, byte_index + 1)

\* draw_sprite whose collision starts from the old VF instead of false.
draw_sprite_keeps_collision(s, x, y, n) ==
    draw_rows(s, <<s.gfx, s.V[15] # 0>>, x, y, n, 0)

draw_sprite(s, x, y, n) == draw_rows(s, <<s.gfx, FALSE>>, x, y, n, 0)

\* FX55 whose address is reduced modulo the memory size
RECURSIVE dump_registers_wrapping(_, _, _)
dump_registers_wrapping(s, x, reg_index) ==
    IF reg_index > x THEN s
    ELSE dump_registers_wrapping(
             [s EXCEPT !.memory = Store(@, (s.I + reg_index) % MEM_SIZE,
                                        s.V[reg_index])],
             x, reg_index + 1)

\* FX55 from reg_index on: memory[I + reg_index] = V[reg_index]
RECURSIVE dump_registers(_, _, _)
dump_registers(s, x, reg_index) ==
    IF reg_index > x THEN s
    ELSE IF s.I + reg_index >= MEM_SIZE THEN Panic(s)
    ELSE dump_registers([s EXCEPT !.memory = Store(@, s.I + reg_index, s.V[reg_index])],
                        x, reg_index + 1)

\* FX65 whose loop stops before register x (0..x instead of 0..=x)
RECURSIVE load_registers_exclusive(_, _, _)
load_registers_exclusive(s, x, reg_index) ==
    IF reg_index >= x THEN s
    ELSE IF s.I + reg_index >= MEM_SIZE THEN Panic(s)
    ELSE load_registers_exclusive(
             [s EXCEPT !.V[reg_index] = Byte(s.memory, s.I + reg_index)],
             x, reg_index + 1)

\* FX65 from reg_index on: V[reg_index] = memory[I + reg_index]
RECURSIVE load_registers(_, _, _)
load_registers(s, x, reg_index) ==
    IF reg_index > x THEN s
    ELSE IF s.I + reg_index >= MEM_SIZE THEN Panic(s)
    ELSE load_registers([s EXCEPT !.V[reg_index] = Byte(s.memory, s.I + reg_index)],
                        x, reg_index + 1)

\* FX33: three stores, each of which may be the one that panics
store_bcd(s, x) ==
    IF s.I >= MEM_SIZE THEN Panic(s)
    ELSE LET s1 == [s EXCEPT !.memory = Store(@, s.I, s.V[x] \div 100)]
         IN IF s.I + 1 >= MEM_SIZE THEN Panic(s1)
            ELSE LET s2 == [s1 EXCEPT !.memory = Store(@, s.I + 1, (s.V[x] \div 10) % 10)]
                 IN IF s.I + 2 >= MEM_SIZE THEN Panic(s2)
                    ELSE [s2 EXCEPT !.memory = Store(@, s.I + 2, s.V[x] % 10)]

Advance(s, k) == [s EXCEPT !.pc = @ + k]

\* The timer block that ends execute: it runs when the wall clock is a period
\* of 1/60 s or more past tick_time.
\* The timer block with decrements that wrap below zero
timer_block_wrapping(s, instant_now) ==
    IF instant_now - 1 >= s.tick_time
    THEN [s EXCEPT !.delay_timer = (@ - 1) % 256,
                   !.sound_timer = (@ - 1) % 256,
                   !.tick_time = instant_now]
    ELSE s

timer_block(s, instant_now) ==
    IF instant_now - 1 >= s.tick_time
    THEN [s EXCEPT !.delay_timer = IF @ > 0 THEN @ - 1 ELSE @,
                   !.sound_timer = IF @ > 0 THEN @ - 1 ELSE @,
                   !.tick_time = instant_now]
    ELSE s

\* The arms of the match of execute that define the flag VF.
\* 8XY4 that adds like 7XKK, without writing the carry
OP_8XY4_without_carry(s, x, y) ==
    Advance([s EXCEPT !.V[x] = overflowing_add(s.V[x], s.V[y])[1]], 2)

OP_8XY4(s, x, y) ==
    LET result == overflowing_add(s.V[x], s.V[y])
    IN Advance([s EXCEPT !.V[15] = AsU8(result[2]), !.V[x] = result[1]], 2)

\* 8XY5 that writes the borrow itself into VF
OP_8XY5_flag_is_borrow(s, x, y) ==
    LET result == overflowing_sub(s.V[x], s.V[y])
    IN Advance([s EXCEPT !.V[15] = AsU8(result[2]), !.V[x] = result[1]], 2)

OP_8XY5(s, x, y) ==
    LET result == overflowing_sub(s.V[x], s.V[y])
    IN Advance([s EXCEPT !.V[15] = AsU8(~result[2]), !.V[x] = result[1]], 2)

\* 8XY6 that shifts first and takes the flag from the shifted value
OP_8X16_flag_after_shift(s, x) ==
    LET s1 == [s EXCEPT !.V[x] = s.V[x] \div 2]
    IN Advance([s1 EXCEPT !.V[15] = BitAnd(s1.V[x], 1)], 2)

OP_8X16(s, x) ==
    LET s1 == [s EXCEPT !.V[15] = BitAnd(s.V[x], 1)]
    IN Advance([s1 EXCEPT !.V[x] = s1.V[x] \div 2], 2)

OP_8XY7(s, x, y) ==
    LET result == overflowing_sub(s.V[y], s.V[x])
    IN Advance([s EXCEPT !.V[15] = AsU8(result[2]), !.V[x] = result[1]], 2)

OP_8X1E(s, x) ==
    LET s1 == [s EXCEPT !.V[15] = IF BitAnd(s.V[x], 128) = 128 THEN 1 ELSE 0]
    IN Advance([s1 EXCEPT !.V[x] = (s1.V[x] * 2) % 256], 2)

\* 4XKK that skips on equality, like 3XKK
OP_4XKK_skips_when_equal(s, x, kk) ==
    Advance(s, IF s.V[x] = kk THEN 4 ELSE 2)

\* 4XKK: skip if VX != KK.
OP_4XKK(s, x, kk) == Advance(s, IF s.V[x] # kk THEN 4 ELSE 2)

\* 2MMM without the bounds check of the index: a call on a full stack stores
\* nothing and still counts
OP_2MMM_unchecked(s, mmm) ==
    IF s.sp >= STACK_SIZE THEN [s EXCEPT !.sp = @ + 1, !.pc = mmm]
    ELSE [s EXCEPT !.stack[s.sp] = s.pc, !.sp = @ + 1, !.pc = mmm]

\* 2MMM: the store into stack[sp] panics when sp is 16.
OP_2MMM(s, mmm) ==
    IF s.sp >= STACK_SIZE THEN Panic(s)
    ELSE [s EXCEPT !.stack[s.sp] = s.pc, !.sp = @ + 1, !.pc = mmm]

\* 00EE that resumes at the popped address itself, the call
OP_00EE_resumes_at_call(s, overflow_checks) ==
    IF s.sp = 0
    THEN IF overflow_checks THEN Panic(s)
         ELSE Panic([s EXCEPT !.sp = USIZE_MAX])
    ELSE IF s.sp - 1 >= STACK_SIZE THEN Panic([s EXCEPT !.sp = @ - 1])
    ELSE [s EXCEPT !.sp = @ - 1, !.pc = s.stack[s.sp - 1]]

\* 00EE: sp -= 1 underflows at sp = 0 (a panic with overflow checks, else
\* usize::MAX and a panic on the index).
OP_00EE(s, overflow_checks) ==
    IF s.sp = 0
    THEN IF overflow_checks THEN Panic(s)
         ELSE Panic([s EXCEPT !.sp = USIZE_MAX])
    ELSE IF s.sp - 1 >= STACK_SIZE THEN Panic([s EXCEPT !.sp = @ - 1])
    ELSE [s EXCEPT !.sp = @ - 1, !.pc = s.stack[s.sp - 1] + 2]

OP_DXYN(s, x, y, n) ==
    LET s1 == draw_sprite(s, x, y, n)
    IN IF s1.panicked THEN s1 ELSE Advance(s1, 2)

OP_FX0A(s, x) == Advance([s EXCEPT !.wait_for_input = Some(x)], 2)

\* The match of execute.  rnd is the byte thread_rng draws; overflow_checks
\* says whether the build panics on integer overflow (debug) or wraps (release).
execute_match(s, rnd, overflow_checks) ==
    LET op == s.opcode
        o == op.op
    IN CASE o = "OP_0000" -> Advance(s, 2)
         [] o = "OP_00E0" -> Advance(clear_screen(s), 2)
         [] o = "OP_00EE" -> OP_00EE(s, overflow_checks)
         [] o = "OP_1MMM" -> [s EXCEPT !.pc = op.mmm]
         [] o = "OP_2MMM" -> OP_2MMM(s, op.mmm)
         [] o = "OP_3XKK" -> Advance(s, IF s.V[op.x] = op.kk THEN 4 ELSE 2)
         [] o = "OP_4XKK" -> OP_4XKK(s, op.x, op.kk)
         [] o = "OP_5XY0" -> Advance(s, IF s.V[op.x] = s.V[op.y] THEN 4 ELSE 2)
         [] o = "OP_6XKK" -> Advance([s EXCEPT !.V[op.x] = op.kk], 2)
         [] o = "OP_7XKK" ->
              Advance([s EXCEPT !.V[op.x] = overflowing_add(s.V[op.x], op.kk)[1]], 2)
         [] o = "OP_8XY0" -> Advance([s EXCEPT !.V[op.x] = s.V[op.y]], 2)
         [] o = "OP_8XY1" ->
              Advance([s EXCEPT !.V[op.x] = BitOr(s.V[op.x], s.V[op.y])], 2)
         [] o = "OP_8XY2" ->
              Advance([s EXCEPT !.V[op.x] = BitAnd(s.V[op.x], s.V[op.y])], 2)
         [] o = "OP_8XY3" ->
              Advance([s EXCEPT !.V[op.x] = BitXor(s.V[op.x], s.V[op.y])], 2)
         [] o = "OP_8XY4" -> OP_8XY4(s, op.x, op.y)
         [] o = "OP_8XY5" -> OP_8XY5(s, op.x, op.y)
         [] o = "OP_8X16" -> OP_8X16(s, op.x)
         [] o = "OP_8XY7" -> OP_8XY7(s, op.x, op.y)
         [] o = "OP_8X1E" -> OP_8X1E(s, op.x)
         [] o = "OP_9XY0" -> Advance(s, IF s.V[op.x] # s.V[op.y] THEN 4 ELSE 2)
         [] o = "OP_AMMM" -> Advance([s EXCEPT !.I = op.mmm], 2)
         [] o = "OP_BMMM" -> [s EXCEPT !.pc = op.mmm + s.V[0]]
         [] o = "OP_CXKK" -> Advance([s EXCEPT !.V[op.x] = BitAnd(rnd, op.kk)], 2)
         [] o = "OP_DXYN" -> OP_DXYN(s, op.x, op.y, op.n)
         [] o = "OP_EX9E" ->
              LET key == s.V[op.x]
              IN IF key >= KEY_COUNT THEN Panic(s)
                 ELSE Advance(s, IF s.keys[key] THEN 4 ELSE 2)
         [] o = "OP_EXA1" ->
              LET key == s.V[op.x]
              IN IF key >= KEY_COUNT THEN Panic(s)
                 ELSE Advance(s, IF ~s.keys[key] THEN 4 ELSE 2)
         [] o = "OP_F000" -> Panic(s)
         [] o = "OP_FX07" -> Advance([s EXCEPT !.V[op.x] = s.delay_timer], 2)
         [] o = "OP_FX0A" -> OP_FX0A(s, op.x)
         [] o = "OP_FX15" -> Advance([s EXCEPT !.delay_timer = s.V[op.x]], 2)
         [] o = "OP_FX18" -> s
         [] o = "OP_FX1E" -> Advance([s EXCEPT !.I = @ + s.V[op.x]], 2)
         [] o = "OP_FX29" ->
              IF s.V[op.x] * 5 > 255 /\ overflow_checks THEN Panic(s)
              ELSE Advance([s EXCEPT !.I = (s.V[op.x] * 5) % 256], 2)
         [] o = "OP_FX33" ->
              LET s1 == store_bcd(s, op.x)
              IN IF s1.panicked THEN s1 ELSE Advance(s1, 2)
         [] o = "OP_FX55" ->
              LET s1 == dump_registers(s, op.x, 0)
              IN IF s1.panicked THEN s1 ELSE Advance(s1, 2)
         [] o = "OP_FX65" ->
              LET s1 == load_registers(s, op.x, 0)
              IN IF s1.panicked THEN s1 ELSE Advance(s1, 2)
         [] o = "OP_FX70" -> Panic(s)
         [] o = "OP_FX71" -> Panic(s)
         [] o = "OP_FX72" -> Panic(s)

execute(s, rnd, instant_now, overflow_checks) ==
    LET s1 == execute_match(s, rnd, overflow_checks)
    IN IF s1.panicked THEN s1 ELSE timer_block(s1, instant_now)

\* emulate_cycle without its test of the wait marker
emulate_cycle_ignoring_wait(s, rnd, instant_now, overflow_checks) ==
    IF ~FetchInRange(s) THEN Panic(s)
    ELSE LET decoded == decode(fetch(s))
         IN IF decoded.op = UnknownOpcode.op THEN Panic(s)
            ELSE execute([s EXCEPT !.opcode = decoded], rnd, instant_now,
                         overflow_checks)

\* emulate_cycle: fetch and decode come first, also while a key is awaited.
emulate_cycle(s, rnd, instant_now, overflow_checks) ==
    IF ~FetchInRange(s) THEN Panic(s)
    ELSE LET raw_opcode == fetch(s)
             decoded == decode(raw_opcode)
         IN IF decoded.op = UnknownOpcode.op THEN Panic(s)
            ELSE LET s1 == [s EXCEPT !.opcode = decoded]
                 IN IF s1.wait_for_input = None
                    THEN execute(s1, rnd, instant_now, overflow_checks)
                    ELSE s1

(* ------------------------------ programs ------------------------------- *)

\* A program of 16-bit words as the bytes of its ROM file, high byte first.
Assemble(words) ==
    [i \in 1..(2 * Len(words)) |->
        IF i % 2 = 1 THEN words[(i + 1) \div 2] \div 256 ELSE words[i \div 2] % 256]

\* Instruction words, as decode takes them apart.
W_1MMM(mmm) == 4096 + mmm

W_6XKK(x, kk) == 24576 + 256 * x + kk

W_8XYN(x, y, n) == 32768 + 256 * x + 16 * y + n

W_AMMM(mmm) == 40960 + mmm

W_DXYN(x, y, n) == 53248 + 256 * x + 16 * y + n

\* Programs around the key wait FX0A: what follows the wait is a key test, a
\* timer read, a draw, a register dump, a word that does not decode.
KeyRoms ==
    { Assemble(<<\hF10A, \hE19E, \h6A01, \h6B02, \h1200>>),
      Assemble(<<\h6203, \hF215, \hF30A, \hF407, \h1204>>),
      Assemble(<<\hF00A, \hD005, \hF00A, \h00E0, \h1200>>),
      Assemble(<<\hA300, \hF10A, \hF155, \h1200>>),
      Assemble(<<\hFF0A, \h0001>>) }

\* The host keys pressed and released in the key-wait runs.
KeySample == {"X", "Num4", "V", "Escape"}

\* Programs for the arithmetic of the 8XYN family: Vx = a; Vy = b; the
\* instruction; and a jump to itself that ends the run.  The operand bytes
\* are the edges of the byte range, the values around the carry, borrow and
\* top-bit boundaries, and the values the documentation uses.
ByteSample ==
    {0, 1, 2, 4, 5, 10, 20, 30, 60, 64, 127, 128, 129, 200, 240, 251, 254, 255}

RegPairSample ==
    {<<0, 1>>, <<1, 0>>, <<2, 2>>, <<3, 15>>, <<14, 7>>, <<15, 0>>, <<15, 15>>}

AluLowNibbles == {4, 5, 6, 7, 14}

AluRoms ==
    { Assemble(<<W_6XKK(xy[1], a), W_6XKK(xy[2], b), W_8XYN(xy[1], xy[2], n),
                 W_1MMM(PROGRAM_START_ADDRESS + 6)>>) :
        xy \in RegPairSample, a \in ByteSample, b \in ByteSample,
        n \in AluLowNibbles }

\* Programs that draw: Vx = vx; Vy = vy; with a background, the glyph "8"
\* drawn at (Vx, Vy); I = i; the same DXYN twice; a jump to itself.  The
\* sprites are font glyphs, the program's own bytes, and the last bytes of
\* the memory; the coordinates lie inside, across and past each screen edge.
DrawProgram(xy, vx, vy, i, n, background) ==
    LET head == <<W_6XKK(xy[1], vx), W_6XKK(xy[2], vy)>>
        back == IF background
                THEN <<W_AMMM(40), W_DXYN(xy[1], xy[2], 5)>> ELSE <<>>
        body == <<W_AMMM(i), W_DXYN(xy[1], xy[2], n), W_DXYN(xy[1], xy[2], n)>>
        code == head \o back \o body
    IN code \o <<W_1MMM(PROGRAM_START_ADDRESS + 2 * Len(code))>>

DrawRegSample == {<<0, 1>>, <<2, 2>>, <<15, 0>>, <<1, 15>>}

DrawXSample == {0, 3, 56, 57, 62, 63, 64, 255}

DrawYSample == {0, 9, 27, 31, 32, 255}

DrawISample == {0, 5, 512, 4093}

DrawNSample == {0, 1, 5, 15}

DrawRoms ==
    { Assemble(DrawProgram(xy, vx, vy, i, n, background)) :
        xy \in DrawRegSample, vx \in DrawXSample, vy \in DrawYSample,
        i \in DrawISample, n \in DrawNSample, background \in BOOLEAN }

\* Programs around the redraw flag: a draw of no rows, a draw of zero bytes
\* (memory at 0x300), a glyph drawn and cleared, with a key wait and a running
\* delay timer in between.
ScreenRoms ==
    { Assemble(<<\hD010, \h00E0, \h1204>>),
      Assemble(<<\hA300, \hD015, \h00E0, \h1206>>),
      Assemble(<<\hA000, \hD015, \hF20A, \h00E0, \h6203, \hF215, \hD011,
                 \h120E>>) }

\* Instruction words of the F family.
W_FX(x, low) == 61440 + 256 * x + low

\* The values the timer programs put into a timer.
TimerSample == {0, 1, 2, 255}

\* Programs that set the delay timer (FX15) or the sound timer (FX18) from V2
\* and then read the delay timer in a loop.
TimerRoms ==
    { Assemble(<<W_6XKK(2, v), W_FX(2, low), W_FX(3, 7), W_1MMM(516)>>) :
        v \in TimerSample, low \in {21, 24} }

\* A program that fills V0..V3 and VF, dumps V0..Vx at I, overwrites V0, V1
\* and VF (or not) and loads V0..Vx from I again.
MemProgram(x, i, overwrite) ==
    LET fill == <<W_6XKK(0, 17), W_6XKK(1, 34), W_6XKK(2, 51), W_6XKK(3, 68),
                  W_6XKK(15, 95)>>
        dump == <<W_AMMM(i), W_FX(x, 85)>>
        between == IF overwrite
                   THEN <<W_6XKK(0, 119), W_6XKK(1, 136), W_6XKK(15, 153)>>
                   ELSE <<>>
        code == fill \o dump \o between \o <<W_FX(x, 101)>>
    IN code \o <<W_1MMM(PROGRAM_START_ADDRESS + 2 * Len(code))>>

MemXSample == {0, 1, 3, 15}

MemISample == {0, 768, 4080, 4093, 4095}

MemRoms ==
    { Assemble(MemProgram(x, i, overwrite)) :
        x \in MemXSample, i \in MemISample, overwrite \in BOOLEAN }

\* Instruction words of call and return.
W_2MMM(mmm) == 8192 + mmm

W_00EE == 238

\* A chain of nested calls: the routine of level k lies at 0x200 + 4 k and
\* holds a call of level k + 1 and a return (level 0: a jump to itself); the
\* routine of the last level only returns.
RECURSIVE CallChain(_, _)
CallChain(depth, k) ==
    IF k = depth THEN <<W_00EE>>
    ELSE <<W_2MMM(PROGRAM_START_ADDRESS + 4 * (k + 1)),
           IF k = 0 THEN W_1MMM(PROGRAM_START_ADDRESS + 2) ELSE W_00EE>>
         \o CallChain(depth, k + 1)

\* Nesting depths up to one more than the stack holds; depth 0 is a return
\* on the empty stack.
CallDepthSample == 0..(STACK_SIZE + 1)

CallRoms == { Assemble(CallChain(depth, 0)) : depth \in CallDepthSample }

\* Values of Vx for the glyph lookup FX29: the sixteen digits, values with a
\* high nibble, and values around 51, the last whose fivefold fits a byte.
FontVxSample == (0..16) \cup {26, 31, 50, 51, 52, 128, 255}

FontRoms ==
    { Assemble(<<W_6XKK(x, vx), W_FX(x, 41), W_1MMM(516)>>) :
        x \in {0, 5}, vx \in FontVxSample }

\* Instruction words of the random instruction.
W_CXKK(x, kk) == 49152 + 256 * x + kk

\* Masks of the random instruction.
MaskSample == {0, 1, 15, 85, 240, 255}

RandRoms ==
    { Assemble(<<W_6XKK(15, 7), W_CXKK(x, kk), W_1MMM(516)>>) :
        x \in {0, 3}, kk \in MaskSample }

\* The programs that run without input, clock or rendering.
InstrRoms == MemRoms \cup CallRoms \cup FontRoms \cup RandRoms

\* Every 16-bit word, placed behind an FX0A: while the key is awaited each
\* step fetches and decodes the word at 0x202 and executes nothing.
DecodeRoms == { Assemble(<<\hF00A, w>>) : w \in 0..65535 }

\* A ROM file of the given length: a jump to 0x200 in its first word, the
\* byte `last` at its end and zeros in between.
RomOfLength(length, last) ==
    [i \in 1..length |-> IF i = 1 THEN 18 ELSE IF i = length THEN last ELSE 0]

\* File lengths around the program space of MEM_SIZE - PROGRAM_START_ADDRESS
\* = 3584 bytes.
RomLengthSample == {0, 1, 2, 3, 100, 3583, 3584, 3585, 3586, 4000}

LoadRoms ==
    { RomOfLength(length, last) :
        length \in RomLengthSample, last \in {1, 127, 255} }

\* One instruction of every kind behind the same preamble (V0 = V1 = 4,
\* V2 = 7, V4 = 12, I = 0x300): the instruction lies at 0x20A; the words at
\* 0x20C and 0x20E, where it can leave pc, are jumps to themselves.
PolicyStart == PROGRAM_START_ADDRESS + 10

PolicyProgram(w) ==
    <<W_6XKK(0, 4), W_6XKK(1, 4), W_6XKK(2, 7), W_6XKK(4, 12), W_AMMM(768),
      w, W_1MMM(PolicyStart + 2), W_1MMM(PolicyStart + 4)>>

PolicyWords ==
    { \h0000, \h00E0, W_1MMM(PolicyStart + 4), W_2MMM(PolicyStart + 4),
      \h3004, \h3005, \h4004, \h4005, \h5010, \h5020, \h6311, \h73FF,
      \h8120, \h8121, \h8122, \h8123, \h8124, \h8125, \h8126, \h8127, \h812E,
      \h9010, \h9020, \hA123, \hB000 + PolicyStart, \hC30F, \hD125,
      \hE39E, \hE3A1, \hE49E, \hE4A1,
      \hF307, \hF30A, \hF215, \hF218, \hF21E, \hF329, \hF333, \hF255, \hF265 }

PolicyRoms == { Assemble(PolicyProgram(w)) : w \in PolicyWords }

\* Draw programs for the collision flag: the coordinates stay on the screen,
\* with and without a background under the sprite.
FlagDrawRoms ==
    { Assemble(DrawProgram(xy, vx, vy, i, n, background)) :
        xy \in DrawRegSample, vx \in {0, 3}, vy \in {0, 9}, i \in {0, 5},
        n \in {1, 5}, background \in BOOLEAN }

\* Instruction words of the skips.
W_XKK(family, x, kk) == 4096 * family + 256 * x + kk

W_XY0(family, x, y) == 4096 * family + 256 * x + 16 * y

W_EX(x, low) == 57344 + 256 * x + low

\* A skip behind the setting of its registers; the two words behind it,
\* where it leaves pc, are jumps to themselves.
SkipProgram(head, w) ==
    LET at == PROGRAM_START_ADDRESS + 2 * Len(head)
    IN head \o <<w, W_1MMM(at + 2), W_1MMM(at + 4)>>

SkipByteSample == {0, 1, 127, 255}

\* Values of Vx for the key tests: the keys of KeySample and a key that is
\* never pressed.
SkipKeySample == {0, 7, 12, 15}

SkipRoms ==
    { Assemble(SkipProgram(<<W_6XKK(x, vx)>>, W_XKK(family, x, kk))) :
        family \in {3, 4}, x \in {0, 7, 15}, vx \in SkipByteSample,
        kk \in SkipByteSample }
    \cup
    { Assemble(SkipProgram(<<W_6XKK(xy[1], vx), W_6XKK(xy[2], vy)>>,
                           W_XY0(family, xy[1], xy[2]))) :
        family \in {5, 9}, xy \in RegPairSample, vx \in SkipByteSample,
        vy \in SkipByteSample }
    \cup
    { Assemble(SkipProgram(<<W_6XKK(x, vx)>>, W_EX(x, low))) :
        x \in {0, 5, 15}, vx \in SkipKeySample, low \in {\h9E, \hA1} }

\* Instruction words of the jump with offset.
W_BMMM(mmm) == 45056 + mmm

\* Jumps with offset to the last addresses of the memory and past them.
JumpTargetSample == {<<4094, 0>>, <<4095, 0>>, <<4095, 1>>, <<4095, 255>>}

\* Programs that reach the end of the memory: a jump with offset to
\* MMM + V0; and I = i + V1 by FX1E, then a sprite, BCD, register-dump or
\* register-load instruction at I, with V0 = 17 and V2 = 255.
EdgeISample == {4093, 4095}

EdgeOffsetSample == {0, 1, 2, 255}

EdgeWords == {\hD001, \hD005, \hF033, \hF233, \hF055, \hF255, \hF065, \hF265}

EdgeRoms ==
    { Assemble(<<W_6XKK(0, mv[2]), W_BMMM(mv[1])>>) : mv \in JumpTargetSample }
    \cup
    { Assemble(<<W_6XKK(0, 17), W_6XKK(2, 255), W_AMMM(i), W_6XKK(1, v),
                 W_FX(1, 30), w, W_1MMM(PROGRAM_START_ADDRESS + 12)>>) :
        i \in EdgeISample, v \in EdgeOffsetSample, w \in EdgeWords }

(* ------------------------------ actions -------------------------------- *)

Assign(s) ==
    /\ memory' = s.memory
    /\ V' = s.V
    /\ I' = s.I
    /\ pc' = s.pc
    /\ gfx' = s.gfx
    /\ delay_timer' = s.delay_timer
    /\ sound_timer' = s.sound_timer
    /\ stack' = s.stack
    /\ sp' = s.sp
    /\ keys' = s.keys
    /\ opcode' = s.opcode
    /\ draw' = s.draw
    /\ wait_for_input' = s.wait_for_input
    /\ tick_time' = s.tick_time
    /\ panicked' = s.panicked

Init ==
    /\ now = 0
    /\ host = "created"
    /\ LET s == create_chip8(0)
       IN /\ memory = s.memory
          /\ V = s.V
          /\ I = s.I
          /\ pc = s.pc
          /\ gfx = s.gfx
          /\ delay_timer = s.delay_timer
          /\ sound_timer = s.sound_timer
          /\ stack = s.stack
          /\ sp = s.sp
          /\ keys = s.keys
          /\ opcode = s.opcode
          /\ draw = s.draw
          /\ wait_for_input = s.wait_for_input
          /\ tick_time = s.tick_time
          /\ panicked = s.panicked

\* The host loads one ROM, once, before it starts stepping.
LoadRomCall(rom) ==
    /\ host = "created"
    /\ ~panicked
    /\ Assign(load_rom(Self, rom))
    /\ host' = "running"
    /\ UNCHANGED now

LoadRom(roms) ==
    /\ host = "created"
    /\ \E rom \in roms : LoadRomCall(rom)

\* The bytes thread_rng().gen_range(0..255) can draw; only CXKK reads the draw.
RndChoices ==
    IF /\ wait_for_input = None
       /\ FetchInRange(Self)
       /\ decode(fetch(Self)).op = "OP_CXKK"
    THEN 0..254 ELSE {0}

EmulateCycle ==
    /\ host = "running"
    /\ ~panicked
    /\ \E rnd \in RndChoices, overflow_checks \in BOOLEAN :
          Assign(emulate_cycle(Self, rnd, now, overflow_checks))
    /\ UNCHANGED <<now, host>>

KeyDownCall(keycode) ==
    /\ host = "running"
    /\ ~panicked
    /\ Assign(key_down(Self, keycode))
    /\ UNCHANGED <<now, host>>

KeyUpCall(keycode) ==
    /\ host = "running"
    /\ ~panicked
    /\ Assign(key_up(Self, keycode))
    /\ UNCHANGED <<now, host>>

KeyDown(keycodes) == \E keycode \in keycodes : KeyDownCall(keycode)

KeyUp(keycodes) == \E keycode \in keycodes : KeyUpCall(keycode)

\* A period of 1/60 s goes by on the wall clock.
TimePasses ==
    /\ ~panicked
    /\ now < MaxNow
    /\ now' = now + 1
    /\ UNCHANGED <<memory, V, I, pc, gfx, delay_timer, sound_timer, stack, sp,
                   keys, opcode, draw, wait_for_input, tick_time, panicked, host>>

\* The host renders the framebuffer and clears the redraw flag.
Render ==
    /\ host = "running"
    /\ ~panicked
    /\ draw
    /\ draw' = FALSE
    /\ UNCHANGED <<memory, V, I, pc, gfx, delay_timer, sound_timer, stack, sp,
                   keys, opcode, wait_for_input, tick_time, panicked, now, host>>

Next ==
    \/ LoadRom(KeyRoms)
    \/ EmulateCycle
    \/ KeyDown(KeySample)
    \/ KeyUp(KeySample)
    \/ TimePasses

Spec == Init /\ [][Next]_vars

\* The arithmetic programs run without input.
NextAlu ==
    \/ LoadRom(AluRoms)
    \/ EmulateCycle

SpecAlu == Init /\ [][NextAlu]_vars

\* The drawing programs run with a host that renders.
NextDraw ==
    \/ LoadRom(DrawRoms)
    \/ EmulateCycle
    \/ Render

SpecDraw == Init /\ [][NextDraw]_vars

\* The drawing and clearing programs run with a host that renders, presses
\* and releases keys, while the wall clock goes on.
NextScreen ==
    \/ LoadRom(ScreenRoms)
    \/ EmulateCycle
    \/ KeyDown(KeySample)
    \/ KeyUp(KeySample)
    \/ TimePasses
    \/ Render

SpecScreen == Init /\ [][NextScreen]_vars

\* The timer programs run while the wall clock goes on.
NextTimer ==
    \/ LoadRom(TimerRoms)
    \/ EmulateCycle
    \/ TimePasses

SpecTimer == Init /\ [][NextTimer]_vars

\* The register, stack, font and random programs run without input.
NextInstr ==
    \/ LoadRom(InstrRoms)
    \/ EmulateCycle

SpecInstr == Init /\ [][NextInstr]_vars

\* The decoder runs over every word.
NextDecode ==
    \/ LoadRom(DecodeRoms)
    \/ EmulateCycle

SpecDecode == Init /\ [][NextDecode]_vars

\* ROM files of several lengths are loaded and started.
NextLoad ==
    \/ LoadRom(LoadRoms)
    \/ EmulateCycle

SpecLoad == Init /\ [][NextLoad]_vars

\* One instruction of every kind, the call chains and the skips run while
\* keys go down and up.
NextPolicy ==
    \/ LoadRom(PolicyRoms \cup CallRoms \cup SkipRoms)
    \/ EmulateCycle
    \/ KeyDown(KeySample)
    \/ KeyUp(KeySample)

SpecPolicy == Init /\ [][NextPolicy]_vars

\* The arithmetic programs and the on-screen draw programs: every instruction
\* that defines the flag VF.
NextFlag ==
    \/ LoadRom(AluRoms \cup FlagDrawRoms)
    \/ EmulateCycle

SpecFlag == Init /\ [][NextFlag]_vars

\* The programs that reach the end of the memory run without input.
NextEdge ==
    \/ LoadRom(EdgeRoms)
    \/ EmulateCycle

SpecEdge == Init /\ [][NextEdge]_vars

(* ------------------------------ key wait ------------------------------- *)

\* C1: while a key wait is pending, a call of emulate_cycle changes none of
\* pc, V, I, memory, stack, sp, gfx, draw, the two timers, keys and the wait
\* marker, whatever word lies at pc and however often it is called.
C1_StepIsNoOpWhileWaiting ==
    [][(wait_for_input # None /\ EmulateCycle) =>
          UNCHANGED <<pc, V, I, memory, stack, sp, gfx, draw, delay_timer,
                      sound_timer, keys, wait_for_input>>]_vars

\* A step was taken during a wait (opcode holds the word at pc, which FX0A is
\* not), with a timer running and a timer period gone by since the last tick.
C1_Witness ==
    /\ wait_for_input = Some(3)
    /\ ~panicked
    /\ opcode = OpX("OP_FX07", 4)
    /\ delay_timer > 0
    /\ now - 1 >= tick_time

\* C2: FX0A on register x sets the marker to x and leaves pc two past its own
\* address; during the wait the first key_down of a mapped key with code k
\* writes k into Vx (and nothing else into V), clears the marker and leaves
\* pc alone, so that the next step executes the word at FX0A's address + 2;
\* key_up and the key_down of an unmapped key leave the marker, V and pc.
\* The host keys are those of KeySample: codes 0x0, 0xC, 0xF and an unmapped one.
C2_KeyWaitResolution ==
    [][/\ (EmulateCycle /\ wait_for_input = None /\ wait_for_input' # None) =>
             /\ opcode' = OpX("OP_FX0A", Unwrap(wait_for_input'))
             /\ opcode' = decode(fetch(Self))
             /\ pc' = pc + 2
       /\ \A keycode \in KeySample :
             (wait_for_input # None /\ KeyDownCall(keycode)) =>
                IF keycode \in MappedKeycodes
                THEN /\ V' = [V EXCEPT ![Unwrap(wait_for_input)] =
                                          Unwrap(keymap(keycode))]
                     /\ Unwrap(keymap(keycode)) \in 0..15
                     /\ wait_for_input' = None
                     /\ pc' = pc
                ELSE UNCHANGED <<wait_for_input, V, pc>>
       /\ \A keycode \in KeySample :
             (wait_for_input # None /\ KeyUpCall(keycode)) =>
                UNCHANGED <<wait_for_input, V, pc>>
       /\ (EmulateCycle /\ wait_for_input = None /\ ~panicked') =>
             opcode' = decode(fetch(Self))
      ]_vars

\* The wait on V1 was resolved by key 0xC (host key Num4) and the step after
\* it executed the word behind FX0A, the key test E19E at 0x202.
C2_Witness ==
    /\ wait_for_input = None
    /\ V[1] = 12
    /\ opcode = OpX("OP_EX9E", 1)
    /\ pc \in {516, 518}
    /\ Byte(memory, 512) = 241 /\ Byte(memory, 513) = 10

\* C3: key_down of logical key k sets flag k, key_up of k clears it, and no
\* other flag changes, in every state, a pending key wait included.
C3_KeyFlagsTrackEvents ==
    [][\A keycode \in MappedKeycodes :
          /\ KeyDownCall(keycode) =>
                keys' = [keys EXCEPT ![Unwrap(keymap(keycode))] = TRUE]
          /\ KeyUpCall(keycode) =>
                keys' = [keys EXCEPT ![Unwrap(keymap(keycode))] = FALSE]]_vars

(* ------------------------------ arithmetic ----------------------------- *)

\* The word at pc, read from the memory bytes, and its nibbles.
HiByte == Byte(memory, pc)

LoByte == Byte(memory, pc + 1)

NibX == HiByte % 16

NibY == LoByte \div 16

\* A step that ran the instruction at pc to its end: a word 8XYn lies at pc.
Ran8XY(n) ==
    /\ EmulateCycle
    /\ wait_for_input = None
    /\ ~panicked'
    /\ pc + 1 < MEM_SIZE
    /\ HiByte \div 16 = 8
    /\ LoByte % 16 = n

\* C4: 8XY4 with x # 0xF leaves Vx = (Vx + Vy) mod 256 and VF = 1 if
\* Vx + Vy > 255, else 0, and advances pc by 2.
C4_AddWithCarry ==
    [][(Ran8XY(4) /\ NibX # 15) =>
          /\ V'[NibX] = (V[NibX] + V[NibY]) % 256
          /\ V'[15] = (IF V[NibX] + V[NibY] > 255 THEN 1 ELSE 0)
          /\ pc' = pc + 2]_vars

\* 200 + 60 was added in V0: V0 = 4 and VF = 1.
C4_Witness ==
    /\ opcode = OpXY("OP_8XY4", <<0, 1>>)
    /\ Byte(memory, 513) = 200 /\ Byte(memory, 515) = 60
    /\ V[0] = 4 /\ V[1] = 60 /\ V[15] = 1
    /\ pc = 518

\* C5: 8XY5 with x # 0xF leaves Vx = (Vx - Vy) mod 256 and VF = 1 when
\* old Vx >= old Vy (no borrow), VF = 0 otherwise.
C5_Subtract ==
    [][(Ran8XY(5) /\ NibX # 15) =>
          /\ V'[NibX] = (V[NibX] - V[NibY]) % 256
          /\ V'[15] = (IF V[NibX] >= V[NibY] THEN 1 ELSE 0)]_vars

\* 5 - 10 was computed in V0: V0 = 251 and VF = 0.
C5_Witness ==
    /\ opcode = OpXY("OP_8XY5", <<0, 1>>)
    /\ Byte(memory, 513) = 5 /\ Byte(memory, 515) = 10
    /\ V[0] = 251 /\ V[1] = 10 /\ V[15] = 0
    /\ pc = 518

\* C6: 8XY7 with x # 0xF leaves Vx = (Vy - Vx) mod 256 and VF = 1 when
\* old Vy >= old Vx (no borrow), VF = 0 otherwise.
C6_ReverseSubtract ==
    [][(Ran8XY(7) /\ NibX # 15) =>
          /\ V'[NibX] = (V[NibY] - V[NibX]) % 256
          /\ V'[15] = (IF V[NibY] >= V[NibX] THEN 1 ELSE 0)]_vars

\* C7: with x # 0xF and v the value of Vx, 8XY6 leaves VF = v mod 2 and
\* Vx = v div 2; 8XYE leaves VF = bit 7 of v and Vx = (2 * v) mod 256.
C7_Shifts ==
    [][/\ (Ran8XY(6) /\ NibX # 15) =>
             /\ V'[15] = V[NibX] % 2
             /\ V'[NibX] = V[NibX] \div 2
       /\ (Ran8XY(14) /\ NibX # 15) =>
             /\ V'[15] = V[NibX] \div 128
             /\ V'[NibX] = (2 * V[NibX]) % 256]_vars

\* 0x81 was shifted left in V0: V0 = 0x02 and VF = 1.
C7_Witness ==
    /\ opcode = OpX("OP_8X1E", 0)
    /\ Byte(memory, 513) = 129
    /\ V[0] = 2 /\ V[15] = 1
    /\ pc = 518

(* ------------------------------- drawing ------------------------------- *)

\* A step that ran a DXYN at pc to its end.
RanDXYN ==
    /\ wait_for_input = None
    /\ pc + 1 < MEM_SIZE
    /\ HiByte \div 16 = 13
    /\ ~panicked'
    /\ EmulateCycle

\* The state a further step leaves behind after this one, the host having
\* rendered in between (and cleared the redraw flag) or not.
StepAfter(rendered, overflow_checks) ==
    emulate_cycle([Self' EXCEPT !.draw = @ /\ ~rendered], 0, now',
                  overflow_checks)

\* This step ran a DXYN and the next step finds the same DXYN at pc, with
\* I, Vx, Vy and the memory as they were before this one.
SameDrawFollows ==
    /\ RanDXYN
    /\ I' = I /\ memory' = memory
    /\ V'[NibX] = V[NibX] /\ V'[NibY] = V[NibY]
    /\ pc' + 1 < MEM_SIZE
    /\ Byte(memory', pc') = HiByte /\ Byte(memory', pc' + 1) = LoByte

\* C8: the same DXYN executed twice in succession, with I, Vx, Vy and the
\* sprite bytes unchanged between the two, leaves every framebuffer cell as it
\* was before the first draw, and the redraw flag is set after each draw.
C8_DoubleDrawRestores ==
    [][/\ RanDXYN => draw'
       /\ SameDrawFollows =>
             \A rendered \in BOOLEAN, overflow_checks \in BOOLEAN :
                LET second == StepAfter(rendered, overflow_checks)
                IN ~second.panicked => second.gfx = gfx /\ second.draw]_vars

\* Glyph "1" was drawn twice at (3, 9) over glyph "8": the 16 pixels of the
\* "8" are back and the redraw flag is set.
C8_Witness ==
    /\ opcode = OpXYN("OP_DXYN", <<0, 1>>, 5)
    /\ pc = 526
    /\ I = 5 /\ V[0] = 3 /\ V[1] = 9
    /\ draw
    /\ Cardinality(gfx) = 16
    /\ \A bit_index \in 0..3 : Cell(gfx, 9 * DISPLAY_WIDTH + 3 + bit_index)

\* C9: after DXYN, VF = 1 if and only if a sprite bit 1 was XORed onto a pixel
\* that was set before the draw, that is, if a set pixel was turned off;
\* otherwise VF = 0.  A draw onto an all-unset framebuffer gives VF = 0, and
\* the redraw of a sprite over itself, that is, over the pixels its first draw
\* has set (at least one), gives VF = 1.
C9_CollisionFlag ==
    [][/\ RanDXYN =>
             /\ V'[15] = (IF \E i \in gfx : ~Cell(gfx', i) THEN 1 ELSE 0)
             /\ gfx = {} => V'[15] = 0
       /\ (SameDrawFollows /\ gfx' \ gfx # {}) =>
             \A rendered \in BOOLEAN, overflow_checks \in BOOLEAN :
                LET second == StepAfter(rendered, overflow_checks)
                IN ~second.panicked => second.V[15] = 1]_vars

\* Glyph "1" was drawn once at (3, 9) over glyph "8": VF = 1, and the pixel
\* both glyphs share in their first row is off.
C9_Witness ==
    /\ opcode = OpXYN("OP_DXYN", <<0, 1>>, 5)
    /\ pc = 524
    /\ I = 5 /\ V[0] = 3 /\ V[1] = 9
    /\ V[15] = 1
    /\ ~Cell(gfx, 9 * DISPLAY_WIDTH + 3 + 2)
    /\ Cell(gfx, 9 * DISPLAY_WIDTH + 3)

\* C10: the sprite bit at row r and column c of a DXYN with Vx = vx, Vy = vy
\* can change only cell (vy + r) * 64 + vx + c, and only when vx + c < 64 and
\* vy + r < 32; every other framebuffer cell is unchanged.
C10_SpriteClipping ==
    [][RanDXYN =>
          LET vx == V[NibX]
              vy == V[NibY]
              n == LoByte % 16
              bit(r, c) == (Byte(memory, I + r) \div Pow2(7 - c)) % 2 = 1
              on_screen == {rc \in (0..(n - 1)) \X (0..7) :
                               /\ vy + rc[1] < DISPLAY_HEIGHT
                               /\ vx + rc[2] < DISPLAY_WIDTH}
              allowed == {(vy + rc[1]) * DISPLAY_WIDTH + vx + rc[2] :
                             rc \in {rc \in on_screen : bit(rc[1], rc[2])}}
          IN \A i \in 0..(DISPLAY_HEIGHT * DISPLAY_WIDTH - 1) :
                Cell(gfx', i) # Cell(gfx, i) => i \in allowed]_vars

(* ----------------------------- redraw flag ----------------------------- *)

\* A step that ran a 00E0 at pc to its end.
Ran00E0 ==
    /\ wait_for_input = None
    /\ pc + 1 < MEM_SIZE
    /\ HiByte = 0 /\ LoByte = 224
    /\ ~panicked'
    /\ EmulateCycle

\* C11: every DXYN (N = 0 and sprites that change no pixel included) and
\* every 00E0 leaves the redraw flag set, 00E0 leaves no framebuffer cell set,
\* and no operation of the core (a step with its timer tick, key_down, key_up,
\* load_rom) clears a set redraw flag.
C11_RedrawFlag ==
    [][/\ RanDXYN => draw'
       /\ Ran00E0 => draw' /\ gfx' = {}
       /\ (\/ EmulateCycle
           \/ KeyDown(KeySample)
           \/ KeyUp(KeySample)
           \/ LoadRom(ScreenRoms)) => (draw => draw')
       /\ \A rom \in ScreenRoms : load_rom(Self, rom).draw = draw]_vars

\* The glyph was drawn and rendered, and the 00E0 behind the key wait has
\* emptied the framebuffer and raised the flag again.
C11_Witness ==
    /\ opcode = Op0("OP_00E0")
    /\ pc = 520
    /\ V[2] = 12
    /\ gfx = {}
    /\ draw

(* ------------------------------- timers -------------------------------- *)

\* A step whose timer block ran: it is the one that moves tick_time.
TimerTick == EmulateCycle /\ ~panicked' /\ tick_time' # tick_time

\* The delay timer as the match of this step leaves it for the timer block.
DelayAfterMatch ==
    IF HiByte \div 16 = 15 /\ LoByte = 21 THEN V[NibX] ELSE delay_timer

\* C12: both timers are in 0..255 in every state, a timer tick lowers each
\* non-zero timer by exactly 1, and a timer equal to 0 stays 0 under a tick.
\* The sound timer is 0 in every state these programs reach; its branch of the
\* timer block is also applied to the values of TimerSample.
C12_TimerClamp ==
    [][/\ delay_timer \in 0..255 /\ sound_timer \in 0..255
       /\ delay_timer' \in 0..255 /\ sound_timer' \in 0..255
       /\ TimerTick =>
             /\ delay_timer' = (IF DelayAfterMatch > 0
                                THEN DelayAfterMatch - 1 ELSE 0)
             /\ sound_timer' = (IF sound_timer > 0 THEN sound_timer - 1 ELSE 0)
       /\ \A t \in TimerSample :
             LET ticked == timer_block([Self EXCEPT !.sound_timer = t,
                                                    !.delay_timer = t],
                                       tick_time + 1)
             IN /\ ticked.sound_timer = (IF t > 0 THEN t - 1 ELSE 0)
                /\ ticked.delay_timer = (IF t > 0 THEN t - 1 ELSE 0)]_vars

\* The delay timer was set to 1, a tick has lowered it to 0, and FX07 has read
\* it as 0.
C12_Witness ==
    /\ opcode = OpX("OP_FX07", 3)
    /\ V[2] = 1 /\ V[3] = 0
    /\ Byte(memory, 515) = 21
    /\ delay_timer = 0
    /\ tick_time = 2

(* ------------------------- register dump and load ----------------------- *)

\* A step that executes the word FXnn with low byte nn at pc.
StepFX(low) ==
    /\ wait_for_input = None
    /\ pc + 1 < MEM_SIZE
    /\ HiByte \div 16 = 15
    /\ LoByte = low
    /\ EmulateCycle

\* Register files a program may have left between the dump and the load.
Overwritten == {V', [i \in 0..(REGISTER_COUNT - 1) |-> 255]}

\* C13: for I + x <= 4095, FX55 leaves memory[I + i] = Vi for i in 0..x and
\* changes no other memory byte, no register and not I; FX65 leaves
\* Vi = memory[I + i] for i in 0..x and changes no other register, not I and
\* no memory byte; so an FX65 with the same x and I that follows the FX55
\* leaves V0..Vx as they were before the dump and the registers above x as
\* they were before the load.
C13_DumpLoadRoundTrip ==
    [][/\ (StepFX(85) /\ I + NibX <= MEM_SIZE - 1) =>
             /\ ~panicked'
             /\ \A a \in 0..(MEM_SIZE - 1) :
                   Byte(memory', a) = (IF a \in I..(I + NibX)
                                       THEN V[a - I] ELSE Byte(memory, a))
             /\ V' = V /\ I' = I /\ pc' = pc + 2
       /\ (StepFX(101) /\ I + NibX <= MEM_SIZE - 1) =>
             /\ ~panicked'
             /\ \A i \in 0..(REGISTER_COUNT - 1) :
                   V'[i] = (IF i <= NibX THEN Byte(memory, I + i) ELSE V[i])
             /\ memory' = memory /\ I' = I /\ pc' = pc + 2
       /\ (/\ StepFX(85) /\ I + NibX <= MEM_SIZE - 1
           /\ pc' + 1 < MEM_SIZE
           /\ Byte(memory', pc') = HiByte /\ Byte(memory', pc' + 1) = 101) =>
             \A between \in Overwritten, overflow_checks \in BOOLEAN :
                LET loaded == emulate_cycle([Self' EXCEPT !.V = between], 0,
                                            now', overflow_checks)
                IN /\ ~loaded.panicked
                   /\ loaded.I = I
                   /\ \A i \in 0..(REGISTER_COUNT - 1) :
                         loaded.V[i] = (IF i <= NibX THEN V[i] ELSE between[i])
      ]_vars

\* V0..V3 were dumped at 0x300, V0, V1 and VF were overwritten, and the load
\* has put V0..V3 back and left VF as overwritten.
C13_Witness ==
    /\ opcode = OpX("OP_FX65", 3)
    /\ pc = 534
    /\ I = 768
    /\ V[0] = 17 /\ V[1] = 34 /\ V[2] = 51 /\ V[3] = 68 /\ V[15] = 153
    /\ \A i \in 0..3 : Byte(memory, 768 + i) = 17 * (i + 1)

(* ------------------------------- decoder ------------------------------- *)

\* The word at pc.
WordAtPc == HiByte * 256 + LoByte

\* The variant and operands the instruction families assign to word w, by
\* nibble position: x = bits 8-11, y = bits 4-7, kk = bits 0-7, address =
\* bits 0-11, n = bits 0-3; UnknownOpcode for a word of no family.
Listed(w) ==
    LET t == w \div 4096
        x == (w \div 256) % 16
        y == (w \div 16) % 16
        n == w % 16
        kk == w % 256
        mmm == w % 4096
        by_top == <<"", "OP_1MMM", "OP_2MMM", "OP_3XKK", "OP_4XKK", "OP_5XY0",
                    "OP_6XKK", "OP_7XKK", "", "OP_9XY0", "OP_AMMM", "OP_BMMM",
                    "OP_CXKK", "OP_DXYN">>
        alu == <<"OP_8XY0", "OP_8XY1", "OP_8XY2", "OP_8XY3", "OP_8XY4",
                 "OP_8XY5", "", "OP_8XY7">>
        f == [b \in {7, 10, 21, 24, 30, 41, 51, 85, 101} |->
                 CASE b = 7 -> "OP_FX07" [] b = 10 -> "OP_FX0A"
                   [] b = 21 -> "OP_FX15" [] b = 24 -> "OP_FX18"
                   [] b = 30 -> "OP_FX1E" [] b = 41 -> "OP_FX29"
                   [] b = 51 -> "OP_FX33" [] b = 85 -> "OP_FX55"
                   [] b = 101 -> "OP_FX65"]
    IN CASE w = 0 -> Op0("OP_0000")
         [] w = 224 -> Op0("OP_00E0")
         [] w = 238 -> Op0("OP_00EE")
         [] t \in {1, 2, 10, 11} -> OpM(by_top[t + 1], mmm)
         [] t \in {3, 4, 6, 7, 12} -> OpXKK(by_top[t + 1], <<x, kk>>)
         [] t \in {5, 9} /\ n = 0 -> OpXY(by_top[t + 1], <<x, y>>)
         [] t = 8 /\ n \in {0, 1, 2, 3, 4, 5, 7} -> OpXY(alu[n + 1], <<x, y>>)
         [] t = 8 /\ n = 6 -> OpX("OP_8X16", x)
         [] t = 8 /\ n = 14 -> OpX("OP_8X1E", x)
         [] t = 13 -> OpXYN("OP_DXYN", <<x, y>>, n)
         [] t = 14 /\ kk = 158 -> OpX("OP_EX9E", x)
         [] t = 14 /\ kk = 161 -> OpX("OP_EXA1", x)
         [] t = 15 /\ kk \in DOMAIN f -> OpX(f[kk], x)
         [] OTHER -> UnknownOpcode

\* A step fetches and decodes the word at pc.
Decodes == EmulateCycle /\ pc + 1 < MEM_SIZE

\* C14: for every word of a known instruction family, decode returns the
\* family's variant with x = bits 8-11, y = bits 4-7, kk = bits 0-7, address =
\* bits 0-11 and n = bits 0-3 of the word; 0xAxyz decodes to set-index with
\* address 0x0xyz, 0x8F17 to reverse-subtract with x = 0xF and y = 1, and
\* 0x00E0 to clear-screen.
C14_OperandExtraction ==
    [][Decodes =>
          /\ Listed(WordAtPc).op # UnknownOpcode.op =>
                opcode' = Listed(WordAtPc)
          /\ WordAtPc \div 4096 = 10 =>
                opcode' = OpM("OP_AMMM", WordAtPc % 4096)
          /\ WordAtPc = 36631 => opcode' = OpXY("OP_8XY7", <<15, 1>>)
          /\ WordAtPc = 224 => opcode' = Op0("OP_00E0")]_vars

\* The word 0x8F17 behind the FX0A was decoded during the key wait.
C14_Witness ==
    /\ wait_for_input = Some(0)
    /\ pc = 514
    /\ WordAtPc = 36631
    /\ opcode = OpXY("OP_8XY7", <<15, 1>>)
    /\ ~panicked

\* C15: decode fails with the unknown-opcode error for every word that
\* matches no instruction family: the step that decodes it ends in the error
\* and the decoded instruction stays as it was.
C15_DecodeFailure ==
    [][(Decodes /\ Listed(WordAtPc).op = UnknownOpcode.op) =>
          panicked' /\ opcode' = opcode]_vars

(* ------------------------------ ROM loading ---------------------------- *)

\* C16: load_rom of a ROM of length L <= 3584 leaves memory[0x200 + i] = ROM
\* byte i for all i < L and every other memory byte (the font included) as it
\* was; for L > 3584 the memory is left entirely unchanged.
C16_RomLoading ==
    [][\A rom \in LoadRoms :
          LoadRomCall(rom) =>
             IF Len(rom) <= MEM_SIZE - PROGRAM_START_ADDRESS
             THEN /\ ~panicked'
                  /\ \A a \in 0..(MEM_SIZE - 1) :
                        Byte(memory', a) =
                           (IF a - PROGRAM_START_ADDRESS \in 0..(Len(rom) - 1)
                            THEN rom[a - PROGRAM_START_ADDRESS + 1]
                            ELSE Byte(memory, a))
                  /\ \A a \in 0..(FONT_SIZE - 1) : Byte(memory', a) = font[a + 1]
             ELSE memory' = memory]_vars

(* ---------------------------- call and return -------------------------- *)

\* A step that executes the word at pc, whose top nibble is `top`.
StepTop(top) ==
    /\ wait_for_input = None
    /\ pc + 1 < MEM_SIZE
    /\ HiByte \div 16 = top
    /\ EmulateCycle

\* C17: 2MMM at address a with fewer than 16 entries on the stack stores a as
\* the new top entry, increments the stack index and sets pc = MMM; 00EE with
\* a non-empty stack decrements the stack index and sets pc = popped address
\* + 2.  In the call chains the call at 0x200 + 4 k runs with stack index k,
\* so each return resumes behind the call of its own level, in LIFO order,
\* with the stack index back at that call's value.
C17_CallReturn ==
    [][/\ (StepTop(2) /\ sp < STACK_SIZE) =>
             /\ ~panicked'
             /\ stack' = [stack EXCEPT ![sp] = pc]
             /\ sp' = sp + 1
             /\ pc' = WordAtPc % 4096
             /\ pc = PROGRAM_START_ADDRESS + 4 * sp
       /\ (StepTop(0) /\ WordAtPc = W_00EE /\ sp > 0) =>
             /\ ~panicked'
             /\ sp' = sp - 1
             /\ pc' = stack[sp - 1] + 2
             /\ stack' = stack
             /\ Byte(memory, pc' - 2) \div 16 = 2
             /\ pc' = PROGRAM_START_ADDRESS + 4 * sp' + 2]_vars

\* Sixteen nested calls have filled the stack and sixteen returns have
\* emptied it again: the program is back behind its first call.
C17_Witness ==
    /\ opcode = Op0("OP_00EE")
    /\ pc = PROGRAM_START_ADDRESS + 2
    /\ sp = 0
    /\ \A k \in 0..(STACK_SIZE - 1) : stack[k] = PROGRAM_START_ADDRESS + 4 * k
    /\ ~panicked

(* ----------------------------- sound timer ----------------------------- *)

\* C18: FX18 sets the sound timer to Vx (which the timer block of the same
\* step may already lower by 1), changes no register and not the delay timer
\* (but for the tick), and advances pc by 2.
C18_SetSoundTimer ==
    [][StepFX(24) =>
          /\ ~panicked'
          /\ sound_timer' = (IF tick_time' = tick_time THEN V[NibX]
                             ELSE IF V[NibX] > 0 THEN V[NibX] - 1 ELSE 0)
          /\ delay_timer' = (IF tick_time' = tick_time \/ delay_timer = 0
                             THEN delay_timer ELSE delay_timer - 1)
          /\ V' = V
          /\ pc' = pc + 2]_vars

(* ------------------------------ font lookup ---------------------------- *)

\* C19: for every byte value of Vx, FX29 sets I = 5 * (Vx AND 0x0F), the
\* base address of a glyph inside the font region, and advances pc by 2
\* without a fatal error.
C19_FontGlyphLookup ==
    [][StepFX(41) =>
          /\ ~panicked'
          /\ I' = 5 * (V[NibX] % 16)
          /\ I' + 4 < FONT_SIZE
          /\ pc' = pc + 2]_vars

(* --------------------------- random instruction ------------------------ *)

\* The results of r AND kk for r over all byte values.
Masked(kk) == {BitAnd(r, kk) : r \in 0..255}

\* The machine is about to execute a CXKK.
AtCXKK ==
    /\ host = "running"
    /\ ~panicked
    /\ wait_for_input = None
    /\ pc + 1 < MEM_SIZE
    /\ HiByte \div 16 = 12

\* The values a step can leave in Vx, over the bytes the generator can draw.
PossibleResults ==
    { emulate_cycle(Self, rnd, now, overflow_checks).V[NibX] :
        rnd \in RndChoices, overflow_checks \in BOOLEAN }

\* C20: CXKK sets Vx to r AND kk and, for every mask kk, the possible results
\* are exactly { r AND kk : r in 0..255 } (with kk = 0xFF every value 0..255,
\* 255 included); no other register (VF, x # 0xF) is written and pc advances
\* by 2.
C20_RandomAndMask ==
    [][/\ StepTop(12) =>
             /\ ~panicked'
             /\ V'[NibX] \in Masked(LoByte)
             /\ \A i \in 0..(REGISTER_COUNT - 1) : i # NibX => V'[i] = V[i]
             /\ pc' = pc + 2
       /\ AtCXKK => Masked(LoByte) \subseteq PossibleResults]_vars

(* ------------------------ timers and the wall clock --------------------- *)

\* The periods of 1/60 s gone by since the timers last counted.
ElapsedPeriods == now - tick_time

\* A step that executes the set-delay-timer word FX15.
SetsDelayTimer ==
    /\ wait_for_input = None
    /\ HiByte \div 16 = 15
    /\ LoByte = 21

\* n periods off a timer that holds t
CountedDown(t, n) == IF t > n THEN t - n ELSE 0

\* C21: the timers follow the clock and not the instructions: after every
\* step, each timer is lower by one for each period of 1/60 s gone by since
\* the timers last counted (and not below 0), also when the step executed
\* nothing because a key is awaited, and also when several periods went by
\* between two steps.  Steps that set the delay timer are left aside.
C21_TimersFollowTheClock ==
    [][(EmulateCycle /\ ~panicked' /\ ~SetsDelayTimer) =>
          /\ delay_timer' = CountedDown(delay_timer, ElapsedPeriods)
          /\ sound_timer' = CountedDown(sound_timer, ElapsedPeriods)]_vars

(* --------------------------- program counter ---------------------------- *)

\* A step that executes the instruction at pc to its end.
Executes == EmulateCycle /\ wait_for_input = None /\ ~panicked'

\* The program counter a skip instruction leaves
SkipWhen(condition) == pc + (IF condition THEN 4 ELSE 2)

\* The program counter the instruction at pc has to leave.
PolicyPc ==
    LET family == HiByte \div 16
        mmm == WordAtPc % 4096
    IN CASE family = 1 -> mmm
         [] family = 2 -> mmm
         [] WordAtPc = W_00EE -> stack[sp - 1] + 2
         [] family = 11 -> mmm + V[0]
         [] family = 3 -> SkipWhen(V[NibX] = LoByte)
         [] family = 4 -> SkipWhen(V[NibX] # LoByte)
         [] family = 5 -> SkipWhen(V[NibX] = V[NibY])
         [] family = 9 -> SkipWhen(V[NibX] # V[NibY])
         [] family = 14 /\ LoByte = \h9E -> SkipWhen(keys[V[NibX]])
         [] family = 14 /\ LoByte = \hA1 -> SkipWhen(~keys[V[NibX]])
         [] OTHER -> pc + 2

\* C22: every instruction that a step executes leaves pc at the jump, call or
\* jump-with-offset target, behind the call for a return, at pc + 4 for a
\* skip whose condition holds, and at pc + 2 in every other case; no other
\* instruction leaves pc where it was.
C22_ProgramCounterPolicy ==
    [][Executes => pc' = PolicyPc]_vars

\* The policy for every instruction but set-sound-timer FX18
PcPolicyBesidesFX18 ==
    [][(Executes /\ ~(HiByte \div 16 = 15 /\ LoByte = \h18))
          => pc' = PolicyPc]_vars

(* ----------------------------- the flag VF ------------------------------ *)

\* The flag the instruction 8XYn at pc defines, from the operands it finds:
\* carry, no borrow, the bit shifted out.
FlagOf(n) ==
    CASE n = 4 -> IF V[NibX] + V[NibY] > 255 THEN 1 ELSE 0
      [] n = 5 -> IF V[NibX] >= V[NibY] THEN 1 ELSE 0
      [] n = 6 -> V[NibX] % 2
      [] n = 7 -> IF V[NibY] >= V[NibX] THEN 1 ELSE 0
      [] n = 14 -> V[NibX] \div 128

\* C23: after 8XY4, 8XY5, 8XY6, 8XY7 and 8XYE the register VF holds the
\* carry, no-borrow or shifted-out bit of the operands the instruction found,
\* and after DXYN the collision flag (1 when the draw turned a lit pixel off),
\* for every x and y, also for x = 0xF.
C23_FlagWrittenLast ==
    [][/\ \A n \in AluLowNibbles : Ran8XY(n) => V'[15] = FlagOf(n)
       /\ RanDXYN => V'[15] = (IF gfx \ gfx' # {} THEN 1 ELSE 0)]_vars

\* The same with a destination other than VF and without reverse subtract
FlagWithOtherDestination ==
    [][/\ \A n \in AluLowNibbles \ {7} :
             (Ran8XY(n) /\ NibX # 15) => V'[15] = FlagOf(n)
       /\ RanDXYN => V'[15] = (IF gfx \ gfx' # {} THEN 1 ELSE 0)]_vars

\* An add, subtract or shift with x = 0xF leaves its result in VF; the flag
\* it wrote first is lost.
FlagOverwrittenByResult ==
    [][/\ (Ran8XY(4) /\ NibX = 15) => V'[15] = (V[15] + V[NibY]) % 256
       /\ (Ran8XY(5) /\ NibX = 15) => V'[15] = (V[15] - V[NibY]) % 256
       /\ (Ran8XY(7) /\ NibX = 15) => V'[15] = (V[NibY] - V[15]) % 256
       /\ (Ran8XY(6) /\ NibX = 15) => V'[15] = 0
       /\ (Ran8XY(14) /\ NibX = 15) => V'[15] \in {0, 2}]_vars

(* ------------------------------ stack bound ----------------------------- *)

\* A step that fetches a call 2MMM and enters execute with it.
Calls ==
    /\ EmulateCycle
    /\ wait_for_input = None
    /\ FetchInRange(Self)
    /\ HiByte \div 16 = 2

\* A step that fetches a return 00EE and enters execute with it.
Returns ==
    /\ EmulateCycle
    /\ wait_for_input = None
    /\ FetchInRange(Self)
    /\ WordAtPc = W_00EE

\* C24: in every state of the running machine sp is in 0..16 and the stack
\* has the entries 0..15; a call writes entry sp < 16 and a return reads entry
\* sp - 1 >= 0, no other; a call with sp = 16 and a return with sp = 0 end in
\* a fatal error with pc and the stack entries as they were (the failed
\* return is raised with sp at 0 or, in a build without overflow checks,
\* wrapped to usize::MAX).
C24_StackBound ==
    [][/\ ~panicked => sp \in 0..STACK_SIZE
       /\ ~panicked' => sp' \in 0..STACK_SIZE
       /\ DOMAIN stack' = 0..(STACK_SIZE - 1)
       /\ Calls =>
             IF sp = STACK_SIZE
             THEN panicked' /\ pc' = pc /\ stack' = stack /\ sp' = sp
             ELSE /\ ~panicked'
                  /\ sp \in 0..(STACK_SIZE - 1)
                  /\ stack' = [stack EXCEPT ![sp] = pc]
                  /\ sp' = sp + 1
       /\ Returns =>
             IF sp = 0
             THEN panicked' /\ pc' = pc /\ stack' = stack
                  /\ sp' \in {0, USIZE_MAX}
             ELSE /\ ~panicked'
                  /\ sp - 1 \in 0..(STACK_SIZE - 1)
                  /\ pc' = stack[sp - 1] + 2
                  /\ stack' = stack
                  /\ sp' = sp - 1
       /\ (EmulateCycle /\ ~Calls) => stack' = stack]_vars

\* The seventeenth nested call has ended in the fatal error: the stack holds
\* the sixteen return addresses and pc is at the call.
C24_Witness ==
    /\ panicked
    /\ opcode.op = "OP_2MMM"
    /\ sp = STACK_SIZE
    /\ \A k \in 0..(STACK_SIZE - 1) : stack[k] = PROGRAM_START_ADDRESS + 4 * k
    /\ pc = PROGRAM_START_ADDRESS + 4 * STACK_SIZE

(* --------------------------- conditional skips -------------------------- *)

\* The word at pc is one of the six skips.
SkipAtPc ==
    LET family == HiByte \div 16
    IN \/ family \in {3, 4}
       \/ family \in {5, 9} /\ LoByte % 16 = 0
       \/ family = 14 /\ LoByte \in {\h9E, \hA1} /\ V[NibX] \in 0..(KEY_COUNT - 1)

\* The condition of the skip at pc
SkipCondition ==
    LET family == HiByte \div 16
    IN CASE family = 3 -> V[NibX] = LoByte
         [] family = 4 -> V[NibX] # LoByte
         [] family = 5 -> V[NibX] = V[NibY]
         [] family = 9 -> V[NibX] # V[NibY]
         [] family = 14 /\ LoByte = \h9E -> keys[V[NibX]]
         [] family = 14 /\ LoByte = \hA1 -> ~keys[V[NibX]]

Machine(s) ==
    <<s.pc, s.V, s.I, s.memory, s.stack, s.sp, s.gfx, s.draw, s.delay_timer,
      s.sound_timer, s.keys, s.wait_for_input>>

\* C26: the machine state after a call is fixed by the ROM and the calls made
\* so far: a step leaves the same machine state at whatever instant of the
\* wall clock it is called, for each instant t from the last timer tick on.
\* Two runs with the same calls that have agreed so far and make this step at
\* different instants then agree after it; the programs have no CXKK.
C26_Determinism ==
    [][EmulateCycle =>
          \A t \in tick_time..MaxNow, overflow_checks \in BOOLEAN :
             Machine(emulate_cycle(Self, 0, t, overflow_checks))
                = Machine(emulate_cycle(Self, 0, now, overflow_checks))]_vars

\* A step made while both timers are 0 leaves the same machine state at
\* every instant: only the timer block reads the clock.
DeterminismBesidesTimers ==
    [][(EmulateCycle /\ delay_timer = 0 /\ sound_timer = 0
           /\ ~SetsDelayTimer) =>
          \A t \in tick_time..MaxNow, overflow_checks \in BOOLEAN :
             Machine(emulate_cycle(Self, 0, t, overflow_checks))
                = Machine(emulate_cycle(Self, 0, now, overflow_checks))]_vars

(* ---------------------------- memory bounds ----------------------------- *)

\* Every memory byte outside the given addresses is as it was.
MemoryKeptOutside(addresses) ==
    \A a \in (0..(MEM_SIZE - 1)) \ addresses : Byte(memory', a) = Byte(memory, a)

\* A step that fetches the word at pc and enters execute with it.
Enters == EmulateCycle /\ wait_for_input = None /\ FetchInRange(Self)

\* The framebuffer cells the first rows of the sprite at (Vx, Vy) cover.
SpriteCells(rows) ==
    { (V[NibY] + r) * DISPLAY_WIDTH + V[NibX] + c : r \in 0..(rows - 1), c \in 0..7 }

\* C27: a step whose fetch at pc or pc + 1 lies outside the memory ends in a
\* fatal error and changes nothing; a sprite, BCD, register-dump or
\* register-load instruction with an address I + offset outside the memory
\* ends in a fatal error, having read and written only the addresses from I
\* up to the end of the memory: no byte of a wrapped address is written,
\* loaded into a register or drawn; no byte outside 0..4095 is ever stored.
C27_OutOfRangeIsFatal ==
    [][/\ DOMAIN memory' \subseteq 0..(MEM_SIZE - 1)
       /\ (EmulateCycle /\ ~FetchInRange(Self)) =>
             /\ panicked'
             /\ UNCHANGED <<memory, V, I, pc, gfx, delay_timer, sound_timer,
                            stack, sp, keys, draw, wait_for_input>>
       /\ (Enters /\ HiByte \div 16 = 13 /\ I + (LoByte % 16) > MEM_SIZE) =>
             /\ panicked'
             /\ UNCHANGED <<memory, V, I, pc>>
             /\ \A cell \in (gfx' \ gfx) \cup (gfx \ gfx') :
                   I < MEM_SIZE /\ cell \in SpriteCells(MEM_SIZE - I)
       /\ (Enters /\ HiByte \div 16 = 15 /\ LoByte = \h33
              /\ I + 2 >= MEM_SIZE) =>
             /\ panicked'
             /\ MemoryKeptOutside(I..(I + 2))
             /\ UNCHANGED <<V, I, pc, gfx>>
       /\ (Enters /\ HiByte \div 16 = 15 /\ LoByte = \h55
              /\ I + NibX >= MEM_SIZE) =>
             /\ panicked'
             /\ MemoryKeptOutside(I..(I + NibX))
             /\ UNCHANGED <<V, I, pc, gfx>>
       /\ (Enters /\ HiByte \div 16 = 15 /\ LoByte = \h65
              /\ I + NibX >= MEM_SIZE) =>
             /\ panicked'
             /\ \A r \in 0..15 :
                   V'[r] = (IF I + r < MEM_SIZE THEN Byte(memory, I + r)
                            ELSE V[r])
             /\ UNCHANGED <<memory, I, pc, gfx>>]_vars

\* FX1E has raised I to 4095 + 1 and the register dump F255 at 0x20A has ended
\* in the fatal error, the font at the addresses 0..2 as it was.
C27_Witness ==
    /\ panicked
    /\ opcode = OpX("OP_FX55", 2)
    /\ I = MEM_SIZE
    /\ V[0] = 17
    /\ pc = PROGRAM_START_ADDRESS + 10
    /\ Byte(memory, 0) = font[1]

====
